---- MODULE Spec2Model ----
(***************************************************************************)
(* Model of scripts/geodata/osm/admin_boundaries.py: OSMPolygonReader, its *)
(* sorted identifier index (binary_search), the compressed-sparse-row way  *)
(* store, the ring reconstruction (create_polygons) and the streaming      *)
(* generator polygons().                                                   *)
(*                                                                         *)
(* Python indices are kept 0-based; At(a, i) reads a[i].                   *)
(***************************************************************************)
EXTENDS Integers, Sequences, FiniteSets, TLC

VARIABLES
    \* OSMPolygonReader fields (lines 45-59); an array that was set to None is
    \* the empty sequence with its *_is_none flag raised
    node_ids, node_ids_is_none,
    coords, coords_is_none,
    nodes,
    way_ids, way_deps, way_coords, way_indptr,
    \* the module-level name admin_centers read at lines 270-274
    admin_centers,
    \* the reader class (inclusion policy) and the argument of polygons()
    policy, properties_only,
    \* the records parse_osm yields for self.filename, as far as they are known,
    \* and whether the end of the file has been seen
    source, source_complete,
    \* the generator polygons(): which invocation it is, how many records it
    \* has consumed, the counter i, its status, the exception that ended it,
    \* the tuples it yielded, and the status and tuples of the invocation
    \* before it
    run, pos, i_count, pc, err, out, prev_pc, prev_out,
    \* one direct call create_polygons(cp_ways) and what it returned
    cp_ways, cp_called, cp_ret,
    \* one call binary_search(bs_a, bs_x) and what it returned
    bs_a, bs_x, bs_ret

readervars == <<node_ids, node_ids_is_none, coords, coords_is_none, nodes,
                way_ids, way_deps, way_coords, way_indptr, admin_centers>>
storevars  == <<way_ids, way_deps, way_coords, way_indptr>>
genvars    == <<policy, properties_only, source, source_complete,
                run, pos, i_count, pc, err, out, prev_pc, prev_out>>
cpvars     == <<cp_ways, cp_called, cp_ret>>
bsvars     == <<bs_a, bs_x, bs_ret>>
vars       == <<readervars, genvars, cpvars, bsvars>>

(***************************************************************************)
(* Bounds                                                                  *)
(***************************************************************************)
MaxVal == 4        \* identifiers used in the binary-search calls are 1..MaxVal

(***************************************************************************)
(* Helpers for Python sequences                                            *)
(***************************************************************************)
At(a, i) == a[i + 1]

\* a[i] with Python's index rules: -len(a) <= i < len(a), else IndexError
PyIndexOk(a, i) == -Len(a) <= i /\ i < Len(a)
PyAt(a, i) == IF i < 0 THEN a[Len(a) + i + 1] ELSE a[i + 1]

\* a[lo:hi] for 0 <= lo, hi <= len(a); empty when hi <= lo
Slice(a, lo, hi) == IF hi <= lo THEN <<>> ELSE SubSeq(a, lo + 1, hi)

\* a[::-1]
Reversed(a) == [i \in 1..Len(a) |-> a[Len(a) + 1 - i]]

Range(a) == {a[i] : i \in 1..Len(a)}

StrictlyAscending(a) == \A i \in 1..(Len(a) - 1) : a[i] < a[i + 1]

\* all strictly ascending sequences over 1..n
RECURSIVE AscendingSeqs(_)
AscendingSeqs(n) ==
    IF n = 0 THEN {<<>>}
    ELSE AscendingSeqs(n - 1) \cup {Append(s, n) : s \in AscendingSeqs(n - 1)}

(***************************************************************************)
(* binary_search (lines 61-66)                                             *)
(***************************************************************************)
ValueError == -1   \* the result that stands for "raise ValueError"

\* bisect.bisect_left(a, x, lo, hi): the bisection loop of the library
RECURSIVE bisect_left(_, _, _, _)
bisect_left(a, x, lo, hi) ==
    IF lo < hi
    THEN LET mid == (lo + hi) \div 2
         IN  IF At(a, mid) < x
             THEN bisect_left(a, x, mid + 1, hi)
             ELSE bisect_left(a, x, lo, mid)
    ELSE lo

binary_search_noeq(a, x) ==
    LET i == bisect_left(a, x, 0, Len(a))
    IN  IF i # Len(a) THEN i ELSE ValueError

binary_search(a, x) ==
    LET i == bisect_left(a, x, 0, Len(a))
    IN  IF i # Len(a) /\ At(a, i) = x THEN i ELSE ValueError

(***************************************************************************)
(* Store accessors (lines 68-75)                                           *)
(***************************************************************************)
\* zip(node_coords[::2], node_coords[1::2]) over coords[indptr[idx]*2 : indptr[idx+1]*2]
node_coordinates(coords_, indptr, idx) ==
    LET start_index == At(indptr, idx) * 2
        end_index   == At(indptr, idx + 1) * 2
        node_coords == Slice(coords_, start_index, end_index)
    IN  [k \in 1..(Len(node_coords) \div 2) |->
            <<node_coords[2 * k - 1], node_coords[2 * k]>>]

sparse_deps(data, indptr, idx) ==
    [k \in 1..(At(indptr, idx + 1) - At(indptr, idx)) |-> At(data, At(indptr, idx) + k - 1)]

(***************************************************************************)
(* create_polygons (lines 77-172)                                          *)
(***************************************************************************)
\* dict / defaultdict helpers: a dict is a function, its keys are its DOMAIN
EmptyDict == << >>

DictAppend(d, k, v) ==
    IF k \in DOMAIN d THEN [d EXCEPT ![k] = Append(@, v)] ELSE d @@ (k :> <<v>>)

DictSet(d, k, v) ==
    IF k \in DOMAIN d THEN [d EXCEPT ![k] = v] ELSE d @@ (k :> v)

\* way_graph[a][b] = None on a defaultdict(OrderedDict): b is added after the
\* keys a already has, and an existing key keeps its position
GraphAdd(g, a, b) ==
    IF a \notin DOMAIN g THEN g @@ (a :> <<b>>)
    ELSE IF b \in Range(g[a]) THEN g
    ELSE [g EXCEPT ![a] = Append(@, b)]

\* lines 120-121: the ring of a closed way
ClosedRing_trimmed(coords_, indptr, way_index) ==
    LET ring == node_coordinates(coords_, indptr, way_index)
    IN  Slice(ring, 0, Len(ring) - 1)

ClosedRing(coords_, indptr, way_index) ==
    node_coordinates(coords_, indptr, way_index)

\* lines 105-106: the ids still to visit after an id that is not in way_ids
AfterUnresolved_break(ws) == <<>>

AfterUnresolved(ws) == Tail(ws)

\* lines 101-125: the loop over the listed way ids
RECURSIVE CollectWays(_, _, _, _, _, _)
CollectWays(ws, ids, deps, coords_, indptr, acc) ==
    IF ws = <<>> THEN acc
    ELSE
      LET way_id    == Head(ws)
          way_index == binary_search(ids, way_id)
      IN  IF way_index = ValueError
          THEN CollectWays(AfterUnresolved(ws), ids, deps, coords_, indptr, acc)
          ELSE IF ~PyIndexOk(deps, At(indptr, way_index))
                  \/ ~PyIndexOk(deps, At(indptr, way_index + 1) - 1)
          THEN [acc EXCEPT !.raised = TRUE]
          ELSE
            LET start_node_id == PyAt(deps, At(indptr, way_index))
                end_node_id   == PyAt(deps, At(indptr, way_index + 1) - 1)
                acc1 == [acc EXCEPT
                           !.way_indices = DictSet(@, way_id, way_index),
                           !.start_end_nodes =
                               DictSet(@, way_id, <<start_node_id, end_node_id>>)]
            IN  IF start_node_id = end_node_id
                THEN CollectWays(Tail(ws), ids, deps, coords_, indptr,
                        [acc1 EXCEPT !.polys =
                            Append(@, ClosedRing(coords_, indptr, way_index))])
                ELSE CollectWays(Tail(ws), ids, deps, coords_, indptr,
                        [acc1 EXCEPT !.end_nodes =
                            DictAppend(DictAppend(@, start_node_id, way_id),
                                       end_node_id, way_id)])

\* itertools.combinations(ws, 2) as the sequence of index pairs i < j, in
\* lexicographic order, applied to the graph (lines 131-133)
RECURSIVE AddCombinations_self(_, _, _, _)
AddCombinations_self(g, ws, i, j) ==
    IF i > Len(ws) THEN g
    ELSE IF j > Len(ws)
    THEN AddCombinations_self(GraphAdd(g, ws[i], ws[i]), ws, i + 1, i + 2)
    ELSE AddCombinations_self(GraphAdd(GraphAdd(g, ws[i], ws[j]), ws[j], ws[i]),
                              ws, i, j + 1)

RECURSIVE AddCombinations(_, _, _, _)
AddCombinations(g, ws, i, j) ==
    IF i >= Len(ws) THEN g
    ELSE IF j > Len(ws) THEN AddCombinations(g, ws, i + 1, i + 2)
    ELSE AddCombinations(GraphAdd(GraphAdd(g, ws[i], ws[j]), ws[j], ws[i]), ws, i, j + 1)

\* lines 128-135: end_nodes.iteritems() visits the keys in the order node_order
RECURSIVE BuildWayGraph(_, _, _)
BuildWayGraph(end_nodes, node_order, g) ==
    IF node_order = <<>> THEN g
    ELSE BuildWayGraph(end_nodes, Tail(node_order),
                       AddCombinations(g, end_nodes[Head(node_order)], 1, 2))

\* line 162
NeighborReverse_swapped(neighbor_head, neighbor_tail, head, tail) ==
    neighbor_head = tail \/ neighbor_tail = head

NeighborReverse(neighbor_head, neighbor_tail, head, tail) ==
    neighbor_head = head \/ neighbor_tail = tail

\* line 165
WayStart_zero(q) == 0

WayStart(q) == IF q # <<>> THEN 0 ELSE 1

\* lines 146-168: the work-list loop of one component.  pops records the
\* (way_id, reverse) pairs in the order they are popped
RECURSIVE PushNeighbors(_, _, _, _, _, _)
PushNeighbors(q, nbrs, seen, start_end_nodes, head, tail) ==
    IF nbrs = <<>> THEN q
    ELSE
      LET neighbor == Head(nbrs) IN
      IF neighbor \in seen
      THEN PushNeighbors(q, Tail(nbrs), seen, start_end_nodes, head, tail)
      ELSE
        LET neighbor_head    == start_end_nodes[neighbor][1]
            neighbor_tail    == start_end_nodes[neighbor][2]
            neighbor_reverse == NeighborReverse(neighbor_head, neighbor_tail, head, tail)
        IN  PushNeighbors(Append(q, <<neighbor, neighbor_reverse>>), Tail(nbrs),
                          seen, start_end_nodes, head, tail)

RECURSIVE RingWalk(_, _, _, _, _, _, _, _)
RingWalk(q, seen, poly_nodes, pops, c, way_graph, coords_, indptr) ==
    IF q = <<>> THEN [poly_nodes |-> poly_nodes, pops |-> pops]
    ELSE
      LET top       == q[Len(q)]
          q1        == SubSeq(q, 1, Len(q) - 1)
          way_id    == top[1]
          reverse   == top[2]
          way_index == c.way_indices[way_id]
          nc0       == node_coordinates(coords_, indptr, way_index)
          node_coords == IF reverse THEN Reversed(nc0) ELSE nc0
          head      == IF reverse THEN c.start_end_nodes[way_id][2]
                                  ELSE c.start_end_nodes[way_id][1]
          tail      == IF reverse THEN c.start_end_nodes[way_id][1]
                                  ELSE c.start_end_nodes[way_id][2]
          q2        == PushNeighbors(q1, way_graph[way_id], seen,
                                     c.start_end_nodes, head, tail)
          way_start == WayStart(q2)
      IN  RingWalk(q2, seen \cup {way_id},
                   poly_nodes \o Slice(node_coords, way_start, Len(node_coords) - 1),
                   Append(pops, top), c, way_graph, coords_, indptr)

\* geodata.graph.scc.strongly_connected_components on the symmetric graph:
\* the connected groups.  Only the first member of a component and the
\* components' order are read by the caller, so a result is a sequence of
\* [first, members].
RECURSIVE Reach(_, _)
Reach(g, S) ==
    LET T == S \cup UNION {Range(g[v]) : v \in S}
    IN  IF T = S THEN S ELSE Reach(g, T)

Components(g) == {Reach(g, {v}) : v \in DOMAIN g}

RECURSIVE Perms(_)
Perms(S) ==
    IF S = {} THEN {<<>>}
    ELSE UNION {{<<x>> \o p : p \in Perms(S \ {x})} : x \in S}

strongly_connected_components(g) ==
    UNION {{[i \in 1..Len(p) |-> [first |-> f[p[i]], members |-> p[i]]] :
                f \in {h \in [Components(g) -> DOMAIN g] :
                          \A cc \in Components(g) : h[cc] \in cc}} :
           p \in Perms(Components(g))}

\* lines 137-170: one ring per component
RECURSIVE WalkComponents(_, _, _, _, _, _)
WalkComponents(comps, acc, c, way_graph, coords_, indptr) ==
    IF comps = <<>> THEN acc
    ELSE
      LET w == RingWalk(<< <<Head(comps).first, FALSE>> >>, {}, <<>>, <<>>,
                        c, way_graph, coords_, indptr)
      IN  WalkComponents(Tail(comps),
                         [acc EXCEPT !.polys = Append(@, w.poly_nodes),
                                     !.walks = Append(@, w.pops)],
                         c, way_graph, coords_, indptr)

Collected(ws, ids, deps, coords_, indptr) ==
    CollectWays(ws, ids, deps, coords_, indptr,
                [polys |-> <<>>, end_nodes |-> EmptyDict,
                 way_indices |-> EmptyDict, start_end_nodes |-> EmptyDict,
                 raised |-> FALSE])

create_polygons_first(ws, ids, deps, coords_, indptr, node_order, comps) ==
    LET c         == Collected(ws, ids, deps, coords_, indptr)
        way_graph == BuildWayGraph(c.end_nodes, node_order, EmptyDict)
    IN  IF c.raised THEN [polys |-> <<>>, walks |-> <<>>, raised |-> TRUE]
        ELSE WalkComponents(IF comps = <<>> THEN comps ELSE <<Head(comps)>>,
                            [polys |-> c.polys, walks |-> <<>>, raised |-> FALSE],
                            c, way_graph, coords_, indptr)

\* create_polygons(ways) on the store (ids, deps, coords_, indptr), with the
\* dict iteration order node_order and the component list comps; walks keeps
\* the pop order of every component next to the rings, and raised says that
\* an IndexError left the call at lines 114-115
create_polygons_walks(ws, ids, deps, coords_, indptr, node_order, comps) ==
    LET c         == Collected(ws, ids, deps, coords_, indptr)
        way_graph == BuildWayGraph(c.end_nodes, node_order, EmptyDict)
    IN  IF c.raised THEN [polys |-> <<>>, walks |-> <<>>, raised |-> TRUE]
        ELSE WalkComponents(comps, [polys |-> c.polys, walks |-> <<>>, raised |-> FALSE],
                            c, way_graph, coords_, indptr)

\* every result create_polygons(ways) can return on the store
CreatePolygonsResults(ws, ids, deps, coords_, indptr) ==
    LET c == Collected(ws, ids, deps, coords_, indptr)
    IN  IF c.raised THEN {[polys |-> <<>>, walks |-> <<>>, raised |-> TRUE]}
        ELSE UNION {{create_polygons_walks(ws, ids, deps, coords_, indptr,
                                           node_order, comps) :
                        comps \in strongly_connected_components(
                                     BuildWayGraph(c.end_nodes, node_order, EmptyDict))} :
                    node_order \in Perms(DOMAIN c.end_nodes)}

(***************************************************************************)
(* Construction (lines 45-59)                                              *)
(***************************************************************************)
NotCalled == -2

InitReader ==
    /\ node_ids = <<>> /\ node_ids_is_none = FALSE
    /\ coords = <<>>   /\ coords_is_none = FALSE
    /\ nodes = EmptyDict
    /\ way_ids = <<>>
    /\ way_deps = <<>>
    /\ way_coords = <<>>
    /\ way_indptr = <<0>>
    /\ admin_centers = <<>>

\* polygons() has not been invoked
InitIdleGenerator ==
    /\ policy = "OSMAdminPolygonReader"
    /\ properties_only = FALSE
    /\ source = <<>> /\ source_complete = TRUE
    /\ run = 0 /\ pos = 0 /\ i_count = 0
    /\ pc = "idle" /\ err = "none"
    /\ out = <<>> /\ prev_pc = "idle" /\ prev_out = <<>>

InitNoCall ==
    /\ cp_ways = <<>> /\ cp_called = FALSE
    /\ cp_ret = [polys |-> <<>>, walks |-> <<>>, raised |-> FALSE]

InitNoSearch ==
    /\ bs_a = <<>> /\ bs_x = 0 /\ bs_ret = NotCalled

(***************************************************************************)
(* The way store as the way branch of polygons() fills it (lines 227-237)  *)
(***************************************************************************)
RECURSIVE Flatten(_)
Flatten(pts) == IF pts = <<>> THEN <<>> ELSE Head(pts) \o Flatten(Tail(pts))

StoreAppend_stale_indptr(st, way_id, deps, pts) ==
    [way_ids    |-> Append(st.way_ids, way_id),
     way_deps   |-> st.way_deps \o deps,
     way_coords |-> st.way_coords \o Flatten(pts),
     way_indptr |-> Append(st.way_indptr, Len(st.way_deps))]

\* lines 228-237 for way_id with members deps whose coordinates are pts
StoreAppend(st, way_id, deps, pts) ==
    [way_ids    |-> Append(st.way_ids, way_id),
     way_deps   |-> st.way_deps \o deps,
     way_coords |-> st.way_coords \o Flatten(pts),
     way_indptr |-> Append(st.way_indptr, Len(st.way_deps \o deps))]

EmptyStore ==
    [way_ids |-> <<>>, way_deps |-> <<>>, way_coords |-> <<>>, way_indptr |-> <<0>>]

(***************************************************************************)
(* Specification of single create_polygons calls                           *)
(*                                                                         *)
(* The store holds the segments of one or two boundaries.  A boundary is a *)
(* closed segment of m members or a cycle of k open segments of m members  *)
(* each, of which the segments in flip are stored end to start.            *)
(***************************************************************************)
MaxCycle   == 4    \* a cycle has 2..MaxCycle segments
MaxMembers == 3    \* a segment has up to MaxMembers members

\* coordinates of point n in these stores
PointOf(n) == <<2 * n, 2 * n + 1>>

ClosedPart(m) == [kind |-> "closed", k |-> 1, m |-> m, flip |-> {}]
CyclePart(k, m, flip) == [kind |-> "cycle", k |-> k, m |-> m, flip |-> flip]

PartNodes(part) ==
    IF part.kind = "closed" THEN (IF part.m = 1 THEN 1 ELSE part.m - 1)
    ELSE part.k * (part.m - 1)

\* the member lists of the segments of a part whose points are numbered from b + 1
PartSegs(part, b) ==
    IF part.kind = "closed"
    THEN << [j \in 1..part.m |-> IF j = part.m THEN b + 1 ELSE b + j] >>
    ELSE [s \in 1..part.k |->
            LET fwd == [j \in 1..part.m |->
                          IF j = 1 THEN b + s
                          ELSE IF j = part.m THEN b + (s % part.k) + 1
                          ELSE b + part.k + (s - 1) * (part.m - 2) + (j - 1)]
            IN  IF s \in part.flip THEN Reversed(fwd) ELSE fwd]

RECURSIVE ConfigSegs(_, _)
ConfigSegs(parts, b) ==
    IF parts = <<>> THEN <<>>
    ELSE PartSegs(Head(parts), b) \o ConfigSegs(Tail(parts), b + PartNodes(Head(parts)))

\* segment s is stored under way id s
RECURSIVE StoreOf(_, _)
StoreOf(segs, n) ==
    IF n = 0 THEN EmptyStore
    ELSE StoreAppend(StoreOf(segs, n - 1), n, segs[n],
                     [j \in 1..Len(segs[n]) |-> PointOf(segs[n][j])])

SingleParts ==
    {ClosedPart(m) : m \in 1..(MaxMembers + 1)}
    \cup UNION {{CyclePart(k, m, flip) : m \in 2..MaxMembers, flip \in SUBSET (1..k)} :
                 k \in 2..MaxCycle}

PairParts ==
    {ClosedPart(2), ClosedPart(4), CyclePart(2, 3, {}),
     CyclePart(3, 2, {}), CyclePart(3, 3, {2})}

PolyConfigs ==
    {<<p>> : p \in SingleParts}
    \cup {<<p1, p2>> : p1 \in PairParts, p2 \in PairParts}

\* the lists create_polygons is called with on a store holding the ways ids:
\* all of them in either order, each alone, all but the last, and lists that
\* also name ids the store does not hold (0 and the id after the last) or
\* name a way twice
WayLists(ids) ==
    {ids, Reversed(ids), SubSeq(ids, 1, Len(ids) - 1)}
    \cup {<<w>> : w \in Range(ids)}
    \cup {<<0>>, <<0>> \o ids, Append(ids, Len(ids) + 1),
          <<ids[1], ids[1]>>}

InitPoly ==
    /\ \E parts \in PolyConfigs :
         LET segs == ConfigSegs(parts, 0)
             st   == StoreOf(segs, Len(segs))
         IN  /\ way_ids = st.way_ids
             /\ way_deps = st.way_deps
             /\ way_coords = st.way_coords
             /\ way_indptr = st.way_indptr
             /\ cp_ways \in WayLists(st.way_ids)
    /\ node_ids = <<>> /\ node_ids_is_none = FALSE
    /\ coords = <<>>   /\ coords_is_none = FALSE
    /\ nodes = EmptyDict
    /\ admin_centers = <<>>
    /\ cp_called = FALSE
    /\ cp_ret = [polys |-> <<>>, walks |-> <<>>, raised |-> FALSE]
    /\ InitIdleGenerator
    /\ InitNoSearch

CallCreatePolygons ==
    /\ ~cp_called
    /\ cp_called' = TRUE
    /\ cp_ret' \in CreatePolygonsResults(cp_ways, way_ids, way_deps, way_coords, way_indptr)
    /\ UNCHANGED <<cp_ways, readervars, genvars, bsvars>>

NextPoly == CallCreatePolygons

SpecPoly == InitPoly /\ [][NextPoly]_vars

(***************************************************************************)
(* What a list of way ids describes, read off the store                    *)
(***************************************************************************)
NoDuplicates(a) == \A i, j \in 1..Len(a) : a[i] = a[j] => i = j

Position(ids, w) == CHOOSE n \in 1..Len(ids) : ids[n] = w

\* the member ids of the way stored at (1-based) position n
MembersAt(n) == SubSeq(way_deps, way_indptr[n] + 1, way_indptr[n + 1])

Members(w) == MembersAt(Position(way_ids, w))

\* the coordinates of the way stored at (1-based) position n
StoredPoints(n) ==
    [j \in 1..(way_indptr[n + 1] - way_indptr[n]) |->
        <<way_coords[2 * (way_indptr[n] + j) - 1], way_coords[2 * (way_indptr[n] + j)]>>]

PointsOfWay(w) == Range(StoredPoints(Position(way_ids, w)))

IsClosedWay(w) == Members(w)[1] = Members(w)[Len(Members(w))]

Ends(w) == {Members(w)[1], Members(w)[Len(Members(w))]}

\* the listed ways reachable from the ways in S over shared end points
RECURSIVE Group(_, _)
Group(S, listed) ==
    LET T == S \cup {w \in listed : \E v \in S : Ends(v) \cap Ends(w) # {}}
    IN  IF T = S THEN S ELSE Group(T, listed)

Groups(listed) == {Group({w}, listed) : w \in listed}

\* G is a cycle of open ways: every end point is the end point of exactly
\* two ways of G
IsOpenCycle(G) ==
    /\ \A w \in G : ~IsClosedWay(w)
    /\ \A w \in G : \A n \in Ends(w) : Cardinality({v \in G : n \in Ends(v)}) = 2

AllListedStored(ws) == NoDuplicates(ws) /\ Range(ws) \subseteq Range(way_ids)

IsSimpleCycleList(ws) ==
    /\ AllListedStored(ws)
    /\ Len(ws) >= 3
    /\ IsOpenCycle(Range(ws))
    /\ Cardinality(Groups(Range(ws))) = 1

IsBoundary(G) == (\E w \in G : G = {w} /\ IsClosedWay(w)) \/ IsOpenCycle(G)

(***************************************************************************)
(* Claims about create_polygons                                            *)
(***************************************************************************)
\* C2: for open segments forming one simple cycle of k >= 3 segments (interior
\* points allowed) create_polygons returns exactly one ring, which contains
\* every coordinate of every segment and holds no coordinate twice.
C2_SimpleCycleOneRing ==
    (cp_called /\ IsSimpleCycleList(cp_ways)) =>
        /\ Len(cp_ret.polys) = 1
        /\ Range(cp_ret.polys[1]) = UNION {PointsOfWay(w) : w \in Range(cp_ways)}
        /\ NoDuplicates(cp_ret.polys[1])

\* C3: a resolvable closed segment listed alone gives exactly one ring, the
\* segment's stored coordinate sequence in stored order, untrimmed.
C3_ClosedSegmentRing ==
    (cp_called /\ Len(cp_ways) = 1 /\ AllListedStored(cp_ways)
               /\ IsClosedWay(cp_ways[1])) =>
        /\ Len(cp_ret.polys) = 1
        /\ cp_ret.polys[1] = [j \in 1..Len(Members(cp_ways[1])) |->
                                 PointOf(Members(cp_ways[1])[j])]

C3_Witness ==
    /\ cp_called /\ Len(cp_ways) = 1 /\ AllListedStored(cp_ways)
    /\ IsClosedWay(cp_ways[1])
    /\ Len(Members(cp_ways[1])) >= 3
    /\ Len(way_ids) = 2
    /\ Len(cp_ret.polys) = 1

\* C6: when the listed segments form two boundaries that share no end point,
\* each a single closed segment or a cycle of open segments, create_polygons
\* returns exactly two rings, one per boundary, each made only of coordinates
\* of its own boundary.
IsTwoBoundaries(ws) ==
    /\ AllListedStored(ws)
    /\ Cardinality(Groups(Range(ws))) = 2
    /\ \A G \in Groups(Range(ws)) : IsBoundary(G)

C6_TwoDisjointBoundaries ==
    (cp_called /\ IsTwoBoundaries(cp_ways)) =>
        /\ Len(cp_ret.polys) = 2
        /\ \E G1, G2 \in Groups(Range(cp_ways)) :
              /\ G1 # G2
              /\ Range(cp_ret.polys[1]) \subseteq UNION {PointsOfWay(w) : w \in G1}
              /\ Range(cp_ret.polys[2]) \subseteq UNION {PointsOfWay(w) : w \in G2}
              /\ Range(cp_ret.polys[1]) # {}
              /\ Range(cp_ret.polys[2]) # {}

\* two cycles of open segments, the second ring listed first
C6_Witness ==
    /\ cp_called /\ IsTwoBoundaries(cp_ways)
    /\ \A w \in Range(cp_ways) : ~IsClosedWay(w)
    /\ Len(cp_ways) = 6
    /\ Len(cp_ret.polys) = 2
    /\ PointOf(1) \in Range(cp_ret.polys[2])

\* the way ids of the (way_id, reverse) pairs of one walk, in pop order
PoppedIds(walk) == [i \in 1..Len(walk) |-> walk[i][1]]

\* C14: in the ring walk of one connected group no segment is revisited: each
\* segment is popped from the work list, and has its coordinates appended, at
\* most once, also when the group is a simple cycle of three or more segments.
C14_NeverRevisited ==
    (cp_called /\ AllListedStored(cp_ways)) =>
        \A n \in 1..Len(cp_ret.walks) : NoDuplicates(PoppedIds(cp_ret.walks[n]))

\* the point a popped segment's coordinates start and end at, as oriented by
\* its reverse flag
OrientedFirst(pop) ==
    IF pop[2] THEN Members(pop[1])[Len(Members(pop[1]))] ELSE Members(pop[1])[1]
OrientedLast(pop) ==
    IF pop[2] THEN Members(pop[1])[1] ELSE Members(pop[1])[Len(Members(pop[1]))]

IsCycleList(ws) ==
    /\ AllListedStored(ws)
    /\ IsOpenCycle(Range(ws))
    /\ Cardinality(Groups(Range(ws))) = 1

\* C15: in the ring walk of a group that is a simple cycle, any two different
\* segments whose coordinates are appended one after the other connect tail to
\* head: the oriented last point of the earlier one is the oriented first
\* point of the later one, whichever neighbour of the start segment is walked
\* first.
C15_TailToHead ==
    (cp_called /\ IsCycleList(cp_ways)) =>
        \A n \in 1..Len(cp_ret.walks) :
            \A i \in 1..(Len(cp_ret.walks[n]) - 1) :
                cp_ret.walks[n][i][1] # cp_ret.walks[n][i + 1][1] =>
                    OrientedLast(cp_ret.walks[n][i]) = OrientedFirst(cp_ret.walks[n][i + 1])

\* ws without the ids that are not in way_ids
RECURSIVE Resolvable(_)
Resolvable(ws) ==
    IF ws = <<>> THEN <<>>
    ELSE IF Head(ws) \in Range(way_ids) THEN <<Head(ws)>> \o Resolvable(Tail(ws))
    ELSE Resolvable(Tail(ws))

\* the component list a result was walked from: walk n started at the first
\* segment of component n
ComponentsWalked(walks, g) ==
    [n \in 1..Len(walks) |->
        [first |-> walks[n][1][1], members |-> Reach(g, {walks[n][1][1]})]]

\* C18: a call of create_polygons with a list that names ids absent from
\* way_ids completes without raising and returns rings that the call with the
\* absent ids removed from the list returns (for the same component list and
\* some iteration order of the end points).
C18_ToleratesUnresolvable ==
    (cp_called /\ Resolvable(cp_ways) # cp_ways) =>
        /\ ~cp_ret.raised
        /\ LET ws == Resolvable(cp_ways)
               c  == Collected(ws, way_ids, way_deps, way_coords, way_indptr)
           IN  \E node_order \in Perms(DOMAIN c.end_nodes) :
                 LET g     == BuildWayGraph(c.end_nodes, node_order, EmptyDict)
                     comps == ComponentsWalked(cp_ret.walks, g)
                 IN  /\ comps \in strongly_connected_components(g)
                     /\ create_polygons_walks(ws, way_ids, way_deps, way_coords,
                                              way_indptr, node_order, comps).polys
                            = cp_ret.polys

\* an absent id came first in the list and the ways after it gave a ring
C18_Witness ==
    /\ cp_called /\ Len(cp_ways) >= 4
    /\ cp_ways[1] \notin Range(way_ids)
    /\ Len(cp_ret.polys) >= 1

\* the entries of the list that name a stored open way or a stored closed
\* way, and the open entries whose way shares no end point with the way of
\* another entry
OpenListed(ws) ==
    {i \in 1..Len(Resolvable(ws)) : ~IsClosedWay(Resolvable(ws)[i])}
ClosedListed(ws) ==
    {i \in 1..Len(Resolvable(ws)) : IsClosedWay(Resolvable(ws)[i])}
Lone(ws) ==
    LET r == Resolvable(ws)
    IN  {i \in OpenListed(ws) :
            \A j \in OpenListed(ws) \ {i} : Ends(r[j]) \cap Ends(r[i]) = {}}

\* the groups of open ways of the list joined by shared end points, lone
\* entries left out
JoinedGroups(ws) ==
    LET r == Resolvable(ws)
    IN  {Group({r[i]}, {r[j] : j \in OpenListed(ws)}) :
            i \in OpenListed(ws) \ Lone(ws)}

\* C20: an open segment that shares no end point with another segment of the
\* list gives no ring and none of its coordinates is in the output; the number
\* of rings is the number of resolvable closed segments of the list plus the
\* number of connected groups of open segments joined by shared end points.
C20_LoneOpenSegment ==
    cp_called =>
        /\ ~cp_ret.raised
        /\ Len(cp_ret.polys) =
              Cardinality(ClosedListed(cp_ways)) + Cardinality(JoinedGroups(cp_ways))
        /\ \A i \in Lone(cp_ways) :
              \A n \in 1..Len(cp_ret.polys) :
                  Range(cp_ret.polys[n]) \cap PointsOfWay(Resolvable(cp_ways)[i]) = {}

\* a lone open segment was listed after the segments of a boundary
C20_Witness ==
    /\ cp_called
    /\ Len(cp_ways) >= 2
    /\ Lone(cp_ways) # {}
    /\ Len(cp_ret.polys) = 1

(***************************************************************************)
(* Inclusion policies (lines 288-300) and the names imported from          *)
(* geodata.osm.extract and geodata.math.floats                             *)
(***************************************************************************)
WAY_OFFSET      == 1000
RELATION_OFFSET == 2000

Get(props, k, default) == IF k \in DOMAIN props THEN props[k] ELSE default

\* str.lower on the type values that occur
Lower_identity(str) == str

Lower(str) ==
    CASE str = "MultiLineString" -> "multilinestring"
      [] str = "Building"        -> "building"
      [] OTHER                   -> str

\* isclose(lon, 180.0) with coordinates in thousandths of a degree
isclose(a, b) == a = b

Readers == {"OSMAdminPolygonReader", "OSMSubdivisionPolygonReader",
            "OSMBuildingPolygonReader"}

include_polygon(reader, props) ==
    CASE reader = "OSMAdminPolygonReader" ->
            "boundary" \in DOMAIN props \/ "place" \in DOMAIN props
      [] reader = "OSMSubdivisionPolygonReader" ->
            "landuse" \in DOMAIN props \/ "place" \in DOMAIN props
                \/ "amenity" \in DOMAIN props
      [] reader = "OSMBuildingPolygonReader" ->
            "building" \in DOMAIN props \/ "building:part" \in DOMAIN props
                \/ Get(props, "type", "None") = "building"

(***************************************************************************)
(* The records parse_osm yields                                            *)
(*                                                                         *)
(* node:     [kind, id, latlon, lon, lat, props]; latlon says whether the  *)
(*           lat/lon attributes are there and convert ("ok"), are absent   *)
(*           ("missing") or do not convert ("malformed"); lon and lat are  *)
(*           what latlon_to_decimal returns, in thousandths of a degree    *)
(* way:      [kind, id, props, deps], deps the member point ids            *)
(* relation: [kind, id, props, deps], deps the (member id, role) pairs     *)
(***************************************************************************)
MaxRecords == 3    \* a generated file has up to MaxRecords records
MaxRuns    == 2    \* polygons() is invoked up to MaxRuns times

EmptyTags      == << >>
NamedPlaceTags == ("name" :> "Springfield") @@ ("place" :> "city")
BoundaryTags   == ("boundary" :> "administrative")
BuildingTags   == ("building" :> "yes")
LineTags       == ("boundary" :> "administrative") @@ ("building" :> "yes")
                     @@ ("landuse" :> "forest") @@ ("type" :> "MultiLineString")

NodeRecord(id, latlon, lon, lat, props) ==
    [kind |-> "node", id |-> id, latlon |-> latlon, lon |-> lon, lat |-> lat,
     props |-> props]
WayRecord(id, props, deps) ==
    [kind |-> "way", id |-> id, props |-> props, deps |-> deps]
RelationRecord(id, props, deps) ==
    [kind |-> "relation", id |-> id, props |-> props, deps |-> deps]

\* the two scenario files
SquareFile ==
    << NodeRecord(1, "ok", 0, 0, EmptyTags), NodeRecord(2, "ok", 1, 0, EmptyTags),
       NodeRecord(3, "ok", 1, 1, EmptyTags), NodeRecord(4, "ok", 0, 1, EmptyTags),
       WayRecord(11, EmptyTags, <<1, 2>>), WayRecord(12, EmptyTags, <<2, 3>>),
       WayRecord(13, EmptyTags, <<3, 4>>), WayRecord(14, EmptyTags, <<4, 1>>),
       RelationRecord(21, BoundaryTags,
           << <<11, "outer">>, <<12, "outer">>, <<13, "outer">>, <<14, "outer">> >>) >>

BuildingFile ==
    << NodeRecord(5, "ok", 50, 51, EmptyTags), NodeRecord(6, "ok", 60, 61, EmptyTags),
       WayRecord(15, BuildingTags, <<5, 6, 5>>) >>

\* the greatest id of the kind already in the file: the ids of a kind are
\* strictly ascending, and a generated record takes the next id
LastId(src, kind) ==
    LET S == {src[n].id : n \in {m \in 1..Len(src) : src[m].kind = kind}}
    IN  IF S = {} THEN 0 ELSE CHOOSE x \in S : \A y \in S : y <= x

NextIds(src, kind) ==
    IF Len(src) < MaxRecords THEN {LastId(src, kind) + 1} ELSE {}

\* a generated point converts, with or without the name and place tags and
\* a longitude of 180, or has no lat/lon, or has one that does not convert
GeneratedNodes(src) ==
    UNION {{NodeRecord(id, "ok", 10 * id, 10 * id + 1, EmptyTags),
            NodeRecord(id, "ok", 180000, 10 * id + 1, NamedPlaceTags),
            NodeRecord(id, "missing", 0, 0, EmptyTags),
            NodeRecord(id, "malformed", 0, 0, NamedPlaceTags)} :
           id \in NextIds(src, "node")}

WayTagMaps == {NamedPlaceTags, BuildingTags}

\* no member, one member, closed and open ways of two members, a closed way
\* of three; a member is unresolvable when its point was not in the file or
\* was skipped
WayMemberLists == {<<>>, <<1>>, <<1, 1>>, <<1, 2>>, <<1, 2, 1>>}

GeneratedWays(src) ==
    {WayRecord(id, props, deps) :
        id \in NextIds(src, "way"), props \in WayTagMaps, deps \in WayMemberLists}

RelationTagMaps == {NamedPlaceTags, BuildingTags, LineTags}

RelationMemberLists ==
    { <<>>,
      << <<1, "outer">> >>,
      << <<1, "">>, <<2, "inner">>, <<1, "label">> >>,
      << <<1, "admin_centre">> >>,
      << <<1, "admin_centre">>, <<2, "admin_centre">> >> }

GeneratedRelations(src) ==
    {RelationRecord(id, props, deps) :
        id \in NextIds(src, "relation"), props \in RelationTagMaps,
        deps \in RelationMemberLists}

\* the records the parser can yield next: the next known record of the file,
\* or, while the end of the file has not been seen, any further record
Upcoming(kind, generated) ==
    IF pos < Len(source)
    THEN (IF source[pos + 1].kind = kind THEN {source[pos + 1]} ELSE {})
    ELSE (IF source_complete THEN {} ELSE generated)

\* the parser hands rec to the loop body
Yielded(rec) ==
    /\ pos' = pos + 1
    /\ source' = IF pos < Len(source) THEN source ELSE Append(source, rec)
    /\ UNCHANGED <<source_complete, policy, properties_only, run, prev_pc, prev_out>>

Raise(e) == pc' = "error" /\ err' = e
Continue == UNCHANGED <<pc, err>>

(***************************************************************************)
(* polygons() (lines 177-285)                                              *)
(***************************************************************************)
\* polygons(properties_only) is invoked, for the first time or again after
\* the generator before it has finished; line 192
PolygonsInvoke ==
    /\ pc \in {"idle", "done", "error"}
    /\ run < MaxRuns
    /\ run' = run + 1
    /\ pos' = 0
    /\ i_count' = 0
    /\ pc' = "running"
    /\ err' = "none"
    /\ prev_pc' = pc
    /\ prev_out' = out
    /\ out' = <<>>
    /\ UNCHANGED <<policy, properties_only, source, source_complete,
                   readervars, cpvars, bsvars>>

\* the parser is exhausted: the for loop of line 194 ends
PolygonsStop ==
    /\ pc = "running"
    /\ pos = Len(source)
    /\ source_complete' = TRUE
    /\ pc' = "done"
    /\ UNCHANGED <<policy, properties_only, source, run, pos, i_count, err, out,
                   prev_pc, prev_out, readervars, cpvars, bsvars>>

\* lines 196-217
PolygonsNode ==
    /\ pc = "running"
    /\ \E rec \in Upcoming("node", GeneratedNodes(source)) :
        /\ Yielded(rec)
        /\ IF rec.latlon # "ok"
           THEN /\ Continue
                /\ UNCHANGED <<readervars, i_count>>
           ELSE LET lon == IF isclose(rec.lon, 180000) THEN 179999 ELSE rec.lon
                    lat == rec.lat
                IN  /\ nodes' = IF "name" \in DOMAIN rec.props /\ "place" \in DOMAIN rec.props
                                THEN DictSet(nodes, rec.id, rec.props)
                                ELSE nodes
                    /\ IF coords_is_none
                       THEN /\ Raise("AttributeError")
                            /\ UNCHANGED <<coords, node_ids, i_count>>
                       ELSE /\ coords' = coords \o <<lon, lat>>
                            /\ IF node_ids_is_none
                               THEN /\ Raise("AttributeError")
                                    /\ UNCHANGED <<node_ids, i_count>>
                               ELSE /\ node_ids' = Append(node_ids, rec.id)
                                    /\ i_count' = i_count + 1
                                    /\ Continue
                    /\ UNCHANGED <<node_ids_is_none, coords_is_none, storevars,
                                   admin_centers>>
    /\ UNCHANGED <<out, cpvars, bsvars>>

\* lines 224-225: the way is skipped
SkipWay_listed(way_id) ==
    /\ way_ids' = Append(way_ids, way_id)
    /\ UNCHANGED <<way_deps, way_coords, way_indptr>>

SkipWay(way_id) == UNCHANGED storevars

\* lines 249-252
ReleasePoints_kept ==
    UNCHANGED <<node_ids, node_ids_is_none, coords, coords_is_none>>

ReleasePoints ==
    /\ node_ids' = <<>> /\ node_ids_is_none' = TRUE
    /\ coords' = <<>>   /\ coords_is_none' = TRUE

\* line 223: the positions of the member points, or ValueError
node_indices_of(deps) == [k \in 1..Len(deps) |-> binary_search(node_ids, deps[k])]

\* lines 232-235: the coordinates copied for the members
CopiedPoints(deps, node_indices) ==
    [k \in 1..Len(deps) |-> <<At(coords, node_indices[k] * 2),
                              At(coords, node_indices[k] * 2 + 1)>>]

\* lines 246 and 282: the tuple yielded when properties_only is set
ReducedTuple_no_center(id, props, admin_center) == <<id, props, EmptyDict>>

ReducedTuple(id, props, admin_center) == <<id, props, admin_center>>

\* line 239, first conjunct: deps[0] == deps[-1]
WayIsClosed_always(deps) == TRUE

WayIsClosed(deps) == deps[1] = deps[Len(deps)]

\* lines 218-246
PolygonsWay ==
    /\ pc = "running"
    /\ \E rec \in Upcoming("way", GeneratedWays(source)) :
        /\ Yielded(rec)
        /\ LET way_id == rec.id
               deps   == rec.deps
               props  == rec.props
           IN
           IF deps # <<>> /\ node_ids_is_none
           THEN \* bisect_left(None, node_id)
                /\ Raise("TypeError")
                /\ UNCHANGED <<readervars, i_count, out>>
           ELSE IF \E k \in 1..Len(deps) : node_indices_of(deps)[k] = ValueError
           THEN /\ Continue
                /\ SkipWay(way_id)
                /\ UNCHANGED <<node_ids, node_ids_is_none, coords, coords_is_none, nodes,
                               admin_centers, i_count, out>>
           ELSE IF deps # <<>> /\ coords_is_none
           THEN \* self.coords[node_index * 2] on None, after line 228
                /\ way_ids' = Append(way_ids, way_id)
                /\ Raise("TypeError")
                /\ UNCHANGED <<node_ids, node_ids_is_none, coords, coords_is_none, nodes,
                               way_deps, way_coords, way_indptr, admin_centers,
                               i_count, out>>
           ELSE
             LET st == StoreAppend([way_ids |-> way_ids, way_deps |-> way_deps,
                                    way_coords |-> way_coords, way_indptr |-> way_indptr],
                                   way_id, deps,
                                   CopiedPoints(deps, node_indices_of(deps)))
             IN  /\ way_ids' = st.way_ids
                 /\ way_deps' = st.way_deps
                 /\ way_coords' = st.way_coords
                 /\ way_indptr' = st.way_indptr
                 /\ UNCHANGED <<node_ids, node_ids_is_none, coords, coords_is_none,
                                nodes, admin_centers>>
                 /\ IF deps = <<>>
                    THEN \* deps[0]
                         /\ Raise("IndexError")
                         /\ UNCHANGED <<i_count, out>>
                    ELSE IF WayIsClosed(deps) /\ include_polygon(policy, props)
                    THEN LET way_id_offset == WAY_OFFSET + way_id IN
                         IF ~properties_only
                         THEN \E outer \in CreatePolygonsResults(<<way_id>>,
                                     st.way_ids, st.way_deps, st.way_coords,
                                     st.way_indptr) :
                                IF outer.raised
                                THEN /\ Raise("IndexError")
                                     /\ UNCHANGED <<i_count, out>>
                                ELSE /\ out' = Append(out, <<way_id_offset, props,
                                                   EmptyDict, outer.polys, <<>> >>)
                                     /\ i_count' = i_count + 1
                                     /\ Continue
                         ELSE /\ out' = Append(out, ReducedTuple(way_id_offset, props,
                                                                    EmptyDict))
                              /\ i_count' = i_count + 1
                              /\ Continue
                    ELSE /\ out' = out
                         /\ i_count' = i_count + 1
                         /\ Continue
    /\ UNCHANGED <<cpvars, bsvars>>

\* lines 258-270: the loop over the members of a relation
RECURSIVE SortMembers(_, _)
SortMembers(deps, acc) ==
    IF deps = <<>> THEN acc
    ELSE
      LET elem_id == Head(deps)[1]
          role    == Head(deps)[2]
      IN  IF role \in {"outer", ""}
          THEN SortMembers(Tail(deps), [acc EXCEPT !.outer_ways = Append(@, elem_id)])
          ELSE IF role = "inner"
          THEN SortMembers(Tail(deps), [acc EXCEPT !.inner_ways = Append(@, elem_id)])
          ELSE IF role = "admin_centre" /\ elem_id \in DOMAIN acc.nodes
          THEN LET val == DictSet(acc.nodes[elem_id], "id", elem_id)
               IN  SortMembers(Tail(deps),
                       [acc EXCEPT !.nodes = DictSet(@, elem_id, val),
                                   !.admin_centers = Append(@, val)])
          ELSE SortMembers(Tail(deps), acc)

\* lines 248-282
PolygonsRelation ==
    /\ pc = "running"
    /\ \E rec \in Upcoming("relation", GeneratedRelations(source)) :
        /\ Yielded(rec)
        /\ ReleasePoints
        /\ UNCHANGED storevars
        /\ LET relation_id == rec.id
               deps        == rec.deps
               props       == rec.props
           IN
           IF Len(deps) = 0 \/ ~include_polygon(policy, props)
                 \/ Lower(Get(props, "type", "")) = "multilinestring"
           THEN /\ Continue
                /\ UNCHANGED <<nodes, admin_centers, i_count, out>>
           ELSE
             LET m == SortMembers(deps, [outer_ways |-> <<>>, inner_ways |-> <<>>,
                                         nodes |-> nodes, admin_centers |-> admin_centers])
                 admin_center == IF Len(m.admin_centers) = 1 THEN m.admin_centers[1]
                                 ELSE EmptyDict
                 relation_id_offset == RELATION_OFFSET + relation_id
             IN  /\ nodes' = m.nodes
                 /\ admin_centers' = m.admin_centers
                 /\ IF ~properties_only
                    THEN \E outer \in CreatePolygonsResults(m.outer_ways, way_ids,
                                          way_deps, way_coords, way_indptr) :
                         \E inner \in CreatePolygonsResults(m.inner_ways, way_ids,
                                          way_deps, way_coords, way_indptr) :
                            IF outer.raised \/ inner.raised
                            THEN /\ Raise("IndexError")
                                 /\ UNCHANGED <<i_count, out>>
                            ELSE /\ out' = Append(out, <<relation_id_offset, props,
                                              admin_center, outer.polys, inner.polys>>)
                                 /\ i_count' = i_count + 1
                                 /\ Continue
                    ELSE /\ out' = Append(out, ReducedTuple(relation_id_offset, props,
                                                               admin_center))
                         /\ i_count' = i_count + 1
                         /\ Continue
    /\ UNCHANGED <<cpvars, bsvars>>

(***************************************************************************)
(* The loop body of polygons() as a function of the reader's state         *)
(*                                                                         *)
(* A reader state is the record of the reader's fields, admin_centers, the *)
(* generator's status and exception, the tuples yielded so far and the     *)
(* number of create_polygons calls made.  HandleRecord gives the states    *)
(* the loop body can leave for one record.                                 *)
(***************************************************************************)
FreshReader ==
    [node_ids |-> <<>>, node_ids_is_none |-> FALSE,
     coords |-> <<>>, coords_is_none |-> FALSE,
     nodes |-> EmptyDict,
     way_ids |-> <<>>, way_deps |-> <<>>, way_coords |-> <<>>, way_indptr |-> <<0>>,
     admin_centers |-> <<>>,
     pc |-> "running", err |-> "none", out |-> <<>>, cp_calls |-> 0]

Raised(st, e) == [st EXCEPT !.pc = "error", !.err = e]

\* lines 196-217
HandleNode(st, rec) ==
    IF rec.latlon # "ok" THEN {st}
    ELSE
      LET lon == IF isclose(rec.lon, 180000) THEN 179999 ELSE rec.lon
          lat == rec.lat
          st1 == IF "name" \in DOMAIN rec.props /\ "place" \in DOMAIN rec.props
                 THEN [st EXCEPT !.nodes = DictSet(@, rec.id, rec.props)]
                 ELSE st
      IN  IF st1.coords_is_none THEN {Raised(st1, "AttributeError")}
          ELSE LET st2 == [st1 EXCEPT !.coords = @ \o <<lon, lat>>]
               IN  IF st2.node_ids_is_none THEN {Raised(st2, "AttributeError")}
                   ELSE {[st2 EXCEPT !.node_ids = Append(@, rec.id)]}

\* lines 218-246
HandleWay(st, rec, reader, po) ==
    LET way_id == rec.id
        deps   == rec.deps
        props  == rec.props
        node_indices == [k \in 1..Len(deps) |-> binary_search(st.node_ids, deps[k])]
    IN
    IF deps # <<>> /\ st.node_ids_is_none THEN {Raised(st, "TypeError")}
    ELSE IF \E k \in 1..Len(deps) : node_indices[k] = ValueError THEN {st}
    ELSE IF deps # <<>> /\ st.coords_is_none
    THEN {Raised([st EXCEPT !.way_ids = Append(@, way_id)], "TypeError")}
    ELSE
      LET pts == [k \in 1..Len(deps) |-> <<At(st.coords, node_indices[k] * 2),
                                           At(st.coords, node_indices[k] * 2 + 1)>>]
          sa  == StoreAppend([way_ids |-> st.way_ids, way_deps |-> st.way_deps,
                              way_coords |-> st.way_coords,
                              way_indptr |-> st.way_indptr], way_id, deps, pts)
          st1 == [st EXCEPT !.way_ids = sa.way_ids, !.way_deps = sa.way_deps,
                            !.way_coords = sa.way_coords, !.way_indptr = sa.way_indptr]
          way_id_offset == WAY_OFFSET + way_id
      IN  IF deps = <<>> THEN {Raised(st1, "IndexError")}
          ELSE IF ~(WayIsClosed(deps) /\ include_polygon(reader, props)) THEN {st1}
          ELSE IF po
          THEN {[st1 EXCEPT !.out = Append(@, ReducedTuple(way_id_offset, props,
                                                           EmptyDict))]}
          ELSE {IF outer.raised
                THEN Raised([st1 EXCEPT !.cp_calls = @ + 1], "IndexError")
                ELSE [st1 EXCEPT !.cp_calls = @ + 1,
                                 !.out = Append(@, <<way_id_offset, props, EmptyDict,
                                                     outer.polys, <<>> >>)] :
                outer \in CreatePolygonsResults(<<way_id>>, sa.way_ids, sa.way_deps,
                                                sa.way_coords, sa.way_indptr)}

\* lines 248-282
HandleRelation(st, rec, reader, po) ==
    LET relation_id == rec.id
        deps        == rec.deps
        props       == rec.props
        st1 == [st EXCEPT !.node_ids = <<>>, !.node_ids_is_none = TRUE,
                          !.coords = <<>>, !.coords_is_none = TRUE]
    IN
    IF Len(deps) = 0 \/ ~include_polygon(reader, props)
          \/ Lower(Get(props, "type", "")) = "multilinestring"
    THEN {st1}
    ELSE
      LET m == SortMembers(deps, [outer_ways |-> <<>>, inner_ways |-> <<>>,
                                  nodes |-> st1.nodes,
                                  admin_centers |-> st1.admin_centers])
          admin_center == IF Len(m.admin_centers) = 1 THEN m.admin_centers[1]
                          ELSE EmptyDict
          relation_id_offset == RELATION_OFFSET + relation_id
          st2 == [st1 EXCEPT !.nodes = m.nodes, !.admin_centers = m.admin_centers]
      IN  IF po
          THEN {[st2 EXCEPT !.out = Append(@, ReducedTuple(relation_id_offset, props,
                                                           admin_center))]}
          ELSE UNION {
                 {IF outer.raised
                  THEN Raised([st2 EXCEPT !.cp_calls = @ + 1], "IndexError")
                  ELSE IF inner.raised
                  THEN Raised([st2 EXCEPT !.cp_calls = @ + 2], "IndexError")
                  ELSE [st2 EXCEPT !.cp_calls = @ + 2,
                                   !.out = Append(@, <<relation_id_offset, props,
                                                       admin_center, outer.polys,
                                                       inner.polys>>)] :
                  inner \in CreatePolygonsResults(m.inner_ways, st2.way_ids,
                               st2.way_deps, st2.way_coords, st2.way_indptr)} :
                 outer \in CreatePolygonsResults(m.outer_ways, st2.way_ids,
                              st2.way_deps, st2.way_coords, st2.way_indptr)}

HandleRecord(st, rec, reader, po) ==
    IF st.pc # "running" THEN {st}
    ELSE CASE rec.kind = "node"     -> HandleNode(st, rec)
           [] rec.kind = "way"      -> HandleWay(st, rec, reader, po)
           [] rec.kind = "relation" -> HandleRelation(st, rec, reader, po)

\* the states polygons(po) can be in after the records of src, from states S
RECURSIVE RunFrom(_, _, _, _)
RunFrom(S, src, reader, po) ==
    IF src = <<>> THEN S
    ELSE RunFrom(UNION {HandleRecord(st, Head(src), reader, po) : st \in S},
                 Tail(src), reader, po)

Init ==
    /\ InitReader
    /\ policy \in Readers
    /\ properties_only \in BOOLEAN
    /\ \/ source = <<>> /\ source_complete = FALSE
       \/ source \in {SquareFile, BuildingFile} /\ source_complete = TRUE
    /\ run = 0 /\ pos = 0 /\ i_count = 0
    /\ pc = "idle" /\ err = "none"
    /\ out = <<>> /\ prev_pc = "idle" /\ prev_out = <<>>
    /\ InitNoCall
    /\ InitNoSearch

Next ==
    \/ PolygonsInvoke
    \/ PolygonsNode
    \/ PolygonsWay
    \/ PolygonsRelation
    \/ PolygonsStop

Spec == Init /\ [][Next]_vars

(***************************************************************************)
(* Claims about polygons()                                                 *)
(***************************************************************************)
\* the record the loop body handled last, and the records handled before it
\* in this invocation
Current == source[pos]
Earlier == {source[n] : n \in 1..(pos - 1)}

FirstRunDone == run = 1 /\ pc = "done"

\* C4 as stated: the way [5,6,5] tagged building=yes under the Building policy
\* gives one emission whose single outer ring is the two coordinates
\* (x5,y5),(x6,y6), the closing point not repeated, and no inner ring.
C4_AsStated ==
    (source = BuildingFile /\ policy = "OSMBuildingPolygonReader"
        /\ ~properties_only /\ FirstRunDone) =>
        out = << <<WAY_OFFSET + 15, BuildingTags, EmptyDict,
                   << << <<50, 51>>, <<60, 61>> >> >>, <<>> >> >>

\* C4 amended: the way [5,6,5] tagged building=yes under the Building policy
\* gives one emission whose single outer ring is the way's three stored
\* coordinates (x5,y5),(x6,y6),(x5,y5), closing point included, and no inner
\* ring.
C4_BuildingScenario ==
    (source = BuildingFile /\ policy = "OSMBuildingPolygonReader"
        /\ ~properties_only /\ FirstRunDone) =>
        out = << <<WAY_OFFSET + 15, BuildingTags, EmptyDict,
                   << << <<50, 51>>, <<60, 61>>, <<50, 51>> >> >>, <<>> >> >>

C4_Witness ==
    /\ source = BuildingFile /\ policy = "OSMBuildingPolygonReader"
    /\ ~properties_only /\ FirstRunDone
    /\ Len(out) = 1 /\ Len(out[1][4]) = 1

\* ring is sq read from some corner in one of the two directions
IsRotationOrReflection(ring, sq) ==
    /\ Len(ring) = Len(sq)
    /\ \E shift \in 0..(Len(sq) - 1) :
          \/ \A j \in 1..Len(sq) : ring[j] = sq[((j - 1 + shift) % Len(sq)) + 1]
          \/ \A j \in 1..Len(sq) : ring[j] = sq[((shift - (j - 1) + Len(sq)) % Len(sq)) + 1]

Square == << <<0, 0>>, <<1, 0>>, <<1, 1>>, <<0, 1>> >>

\* C5: the square scenario (points 1..4, ways A..D, one relation with outer
\* members A..D tagged boundary=administrative) under the Administrative
\* policy emits exactly one result, for the relation, whose single outer ring
\* is the square up to rotation and reflection and whose inner ring list is
\* empty.
C5_SquareScenario ==
    (source = SquareFile /\ policy = "OSMAdminPolygonReader"
        /\ ~properties_only /\ FirstRunDone) =>
        /\ Len(out) = 1
        /\ out[1][1] = RELATION_OFFSET + 21
        /\ Len(out[1][4]) = 1
        /\ IsRotationOrReflection(out[1][4][1], Square)
        /\ out[1][5] = <<>>

\* the walk left the start segment against its direction
C5_Witness ==
    /\ source = SquareFile /\ policy = "OSMAdminPolygonReader"
    /\ ~properties_only /\ FirstRunDone
    /\ Len(out) = 1
    /\ out[1][4] = << << <<1, 0>>, <<0, 0>>, <<0, 1>>, <<1, 1>> >> >>

\* C7: once a relation record has been processed, a way record that names
\* member points ends the run with an error; nothing is added to the way
\* store and nothing is emitted for it.
C7_NoLookupAfterRelease ==
    [][ (/\ pc = "running"
         /\ pos' = pos + 1
         /\ source'[pos'].kind = "way"
         /\ source'[pos'].deps # <<>>
         /\ \E n \in 1..pos : source[n].kind = "relation")
        => (/\ pc' = "error"
            /\ way_ids' = way_ids /\ way_deps' = way_deps
            /\ way_coords' = way_coords /\ way_indptr' = way_indptr
            /\ out' = out) ]_vars

\* a point was stored, a relation released it, and a way naming it arrived
C7_Witness ==
    /\ run = 1 /\ pc = "error" /\ err = "TypeError"
    /\ Current.kind = "way"
    /\ \E r \in Earlier : r.kind = "relation"
    /\ \E r \in Earlier : r.kind = "node" /\ r.latlon = "ok" /\ r.id \in Range(Current.deps)

IsOrdered(src) ==
    \A m, n \in 1..Len(src) :
        m < n => <<src[m].kind, src[n].kind>> \in
                    {<<"node", "node">>, <<"node", "way">>, <<"node", "relation">>,
                     <<"way", "way">>, <<"way", "relation">>,
                     <<"relation", "relation">>}

\* C8: after a first invocation that ran to completion over an ordered input,
\* a second invocation of polygons() on the same reader runs to completion
\* and yields the same tuples in the same order.
C8_ReinvokeSameResults ==
    (run = 2 /\ prev_pc = "done" /\ IsOrdered(source) /\ pc # "running") =>
        (pc = "done" /\ out = prev_out)

\* C9: a way with a member point that is not in the point index is skipped
\* whole: the way store is unchanged, nothing is emitted and the run goes on.
C9_UnresolvableWaySkipped ==
    [][ (/\ pc = "running"
         /\ pos' = pos + 1
         /\ source'[pos'].kind = "way"
         /\ ~node_ids_is_none
         /\ \E k \in 1..Len(source'[pos'].deps) :
               source'[pos'].deps[k] \notin Range(node_ids))
        => (/\ way_ids' = way_ids /\ way_deps' = way_deps
            /\ way_coords' = way_coords /\ way_indptr' = way_indptr
            /\ out' = out
            /\ pc' = "running") ]_vars

\* the first member of the skipped way resolves, the second does not, and a
\* later way is stored
C9_Witness ==
    /\ run = 1 /\ pc = "running" /\ pos >= 2
    /\ Current.kind = "way" /\ way_ids = <<Current.id>>
    /\ \E r \in Earlier :
          /\ r.kind = "way" /\ Len(r.deps) = 2
          /\ r.deps[1] \in Range(node_ids)
          /\ r.deps[2] \notin Range(node_ids)

\* C10: the way store is a well-formed compressed-sparse-row layout:
\* way_indptr starts at 0, never decreases, has len(way_ids) + 1 entries, ends
\* at len(way_deps), way_coords holds two numbers per entry of way_deps, and
\* the slice of way_deps of each stored way is the member list of that way's
\* record.
C10_StoreWellFormed ==
    /\ way_indptr[1] = 0
    /\ \A n \in 1..(Len(way_indptr) - 1) : way_indptr[n] <= way_indptr[n + 1]
    /\ Len(way_indptr) = Len(way_ids) + 1
    /\ way_indptr[Len(way_indptr)] = Len(way_deps)
    /\ Len(way_coords) = 2 * Len(way_deps)
    /\ \A n \in 1..Len(way_ids) :
          \E m \in 1..Len(source) :
              /\ source[m].kind = "way"
              /\ source[m].id = way_ids[n]
              /\ source[m].deps = SubSeq(way_deps, way_indptr[n] + 1, way_indptr[n + 1])

C10_Witness ==
    /\ run = 1
    /\ Len(way_ids) = 2
    /\ way_indptr = <<0, 1, 3>>
    /\ way_deps = <<1, 1, 1>>

\* the record handed to the loop body in this step
Handled(kind) ==
    /\ pc = "running"
    /\ pos' = pos + 1
    /\ source'[pos'].kind = kind

\* every member point of the way is found in the point index
MembersResolve(deps) ==
    /\ ~node_ids_is_none
    /\ \A k \in 1..Len(deps) : binary_search(node_ids, deps[k]) # ValueError

\* C11: a way record produces an emission if and only if all its member points
\* resolve, its first and last member ids are equal and the active policy
\* accepts its tags; the emission is appended while the record is processed and
\* carries WAY_OFFSET + way id, the way's tags, an empty admin-center record
\* and, in the full mode, an empty inner ring list.
C11_WayEmission ==
    [][ Handled("way") =>
          LET rec == source'[pos']
              qualifies ==
                 /\ rec.deps # <<>>
                 /\ MembersResolve(rec.deps)
                 /\ rec.deps[1] = rec.deps[Len(rec.deps)]
                 /\ include_polygon(policy, rec.props)
          IN  IF qualifies
              THEN /\ Len(out') = Len(out) + 1
                   /\ SubSeq(out', 1, Len(out)) = out
                   /\ out'[Len(out')][1] = WAY_OFFSET + rec.id
                   /\ out'[Len(out')][2] = rec.props
                   /\ out'[Len(out')][3] = EmptyDict
                   /\ ~properties_only => out'[Len(out')][5] = <<>>
                   /\ properties_only => Len(out'[Len(out')]) = 3
              ELSE out' = out ]_vars

\* an earlier way was stored without an emission and the closed way handled
\* last was emitted
C11_Witness ==
    /\ run = 1 /\ pc = "running" /\ pos = 3
    /\ Current.kind = "way" /\ Len(Current.deps) >= 2
    /\ Len(way_ids) = 2
    /\ Len(out) = 1 /\ out[1][1] = WAY_OFFSET + Current.id

\* the position in the file of the record an emitted tuple was made for
EmissionPosition(e, src) ==
    CHOOSE n \in 1..Len(src) :
        \/ src[n].kind = "way" /\ e[1] = WAY_OFFSET + src[n].id
        \/ src[n].kind = "relation" /\ e[1] = RELATION_OFFSET + src[n].id

InInputOrder(o, src) ==
    \A i, j \in 1..Len(o) :
        i < j => EmissionPosition(o[i], src) < EmissionPosition(o[j], src)

\* C12: in an input that delivers points, then ways, then relations, a
\* relation record with at least one member, tags the active policy accepts
\* and a type tag other than 'multilinestring' in any letter case produces
\* exactly one emission, with identifier RELATION_OFFSET + relation id; a
\* relation without members, rejected by the policy or typed multilinestring
\* produces none; the emissions of a run are in input record order.
C12_RelationEmission ==
    [][ (Handled("relation") /\ IsOrdered(source')) =>
          LET rec == source'[pos']
              qualifies ==
                 /\ Len(rec.deps) >= 1
                 /\ include_polygon(policy, rec.props)
                 /\ Get(rec.props, "type", "") \notin
                        {"multilinestring", "MultiLineString", "MULTILINESTRING"}
          IN  /\ IF qualifies
                 THEN /\ Len(out') = Len(out) + 1
                      /\ SubSeq(out', 1, Len(out)) = out
                      /\ out'[Len(out')][1] = RELATION_OFFSET + rec.id
                 ELSE out' = out
              /\ InInputOrder(out', source') ]_vars

\* a way was emitted, then a relation
C12_Witness ==
    /\ run = 1 /\ pc = "running" /\ pos >= 1
    /\ Current.kind = "relation"
    /\ Len(out) = 2
    /\ out[1][1] = WAY_OFFSET + 1
    /\ out[2][1] = RELATION_OFFSET + Current.id

\* the reader state the variables hold
ReaderNow ==
    [node_ids |-> node_ids, node_ids_is_none |-> node_ids_is_none,
     coords |-> coords, coords_is_none |-> coords_is_none,
     nodes |-> nodes,
     way_ids |-> way_ids, way_deps |-> way_deps, way_coords |-> way_coords,
     way_indptr |-> way_indptr,
     admin_centers |-> admin_centers,
     pc |-> pc, err |-> err, out |-> out, cp_calls |-> 0]

\* every step of polygons() on a record is a step of HandleRecord
HandlersAgree ==
    [][ (pc = "running" /\ pos' = pos + 1) =>
          \E st \in HandleRecord(ReaderNow, source'[pos'], policy, properties_only) :
              [st EXCEPT !.cp_calls = 0] = ReaderNow' ]_vars

Triples(o) == [n \in 1..Len(o) |-> <<o[n][1], o[n][2], o[n][3]>>]

\* C13: for every input, a metadata-only run on a fresh reader yields the
\* (identifier, tags, admin-center) triples of the full run's tuples in the
\* same order, makes no create_polygons call, and leaves way_ids, way_deps,
\* way_coords, way_indptr and nodes as the full run leaves them; it ends
\* with an error exactly when the full run does.
C13_MetadataOnlyAgrees ==
    (run = 1 /\ ~properties_only) =>
        \A m \in RunFrom({FreshReader}, SubSeq(source, 1, pos), policy, TRUE) :
            /\ m.out = Triples(out)
            /\ m.cp_calls = 0
            /\ m.way_ids = way_ids /\ m.way_deps = way_deps
            /\ m.way_coords = way_coords /\ m.way_indptr = way_indptr
            /\ m.nodes = nodes
            /\ (m.pc = "error") = (pc = "error")

\* the full run emitted a way and a relation, both with rings
C13_Witness ==
    /\ run = 1 /\ ~properties_only /\ pc = "done"
    /\ Len(out) = 2
    /\ out[1][4] # <<>>
    /\ out[2][1] > RELATION_OFFSET /\ out[2][4] # <<>>
    /\ source \notin {SquareFile, BuildingFile}

\* the positions in a relation's member list of its admin_centre members
\* that are retained points
OwnCenters(deps, retained) ==
    {k \in 1..Len(deps) : deps[k][2] = "admin_centre" /\ deps[k][1] \in DOMAIN retained}

\* C16: the admin-center record of an emitted relation depends only on that
\* relation's own admin_centre members: it is the retained record of the
\* member point when exactly one of them is a retained point, and it is empty
\* when none or more than one is, whatever relations were processed before.
C16_OwnAdminCenter ==
    [][ (Handled("relation") /\ Len(out') = Len(out) + 1) =>
          LET rec == source'[pos']
              own == OwnCenters(rec.deps, nodes)
          IN  IF Cardinality(own) = 1
              THEN \E k \in own : out'[Len(out')][3] = nodes'[rec.deps[k][1]]
              ELSE out'[Len(out')][3] = EmptyDict ]_vars

RelationHandled == \E n \in 1..pos : source[n].kind = "relation"

\* C17: in a run on a fresh reader, node_ids and coords are present until the
\* first relation record is handled, whatever point and way records come
\* before it, are released when it is handled, also when that relation is
\* then skipped, and stay released for every later record.
C17_ReleasedAtFirstRelation ==
    run = 1 =>
        /\ node_ids_is_none = RelationHandled
        /\ coords_is_none = RelationHandled

\* the first relation was skipped for having no members, and a record after
\* it has been handled
C17_Witness ==
    /\ run = 1 /\ pos = 3 /\ out = <<>>
    /\ node_ids_is_none /\ coords_is_none
    /\ source[1].kind = "node" /\ source[1].latlon = "ok"
    /\ source[2].kind = "relation" /\ source[2].deps = <<>>

\* the way record at position n of the file found all its member points in
\* the point index: each is a point with valid lat/lon read before it, and no
\* relation was read before it
ResolvedAt(n) ==
    \A k \in 1..Len(source[n].deps) :
        /\ \A m \in 1..(n - 1) : source[m].kind # "relation"
        /\ \E m \in 1..(n - 1) :
              /\ source[m].kind = "node" /\ source[m].latlon = "ok"
              /\ source[m].id = source[n].deps[k]

\* the ids of the resolved ways among the first n records, in input order
RECURSIVE ResolvedWayIds(_)
ResolvedWayIds(n) ==
    IF n = 0 THEN <<>>
    ELSE IF source[n].kind = "way" /\ ResolvedAt(n)
         THEN Append(ResolvedWayIds(n - 1), source[n].id)
         ELSE ResolvedWayIds(n - 1)

\* C19: in a run on a fresh reader, way_ids is the strictly ascending
\* subsequence of the input way ids whose members all resolved, closed or
\* open, accepted by the policy or not; each of them is found by the lookup
\* create_polygons makes for a relation.
C19_ResolvedWaysStored ==
    run = 1 =>
        /\ way_ids = ResolvedWayIds(pos)
        /\ StrictlyAscending(way_ids)
        /\ \A n \in 1..Len(way_ids) : binary_search(way_ids, way_ids[n]) = n - 1

\* the four open ways of the square, which no policy accepts, were stored
\* without an emission, and the relation listing them was emitted with a ring
C19_Witness ==
    /\ source = SquareFile /\ run = 1 /\ pos = Len(source)
    /\ policy = "OSMAdminPolygonReader" /\ ~properties_only
    /\ way_ids = <<11, 12, 13, 14>>
    /\ Len(out) = 1 /\ out[1][1] = RELATION_OFFSET + 21
    /\ Len(out[1][4]) = 1

(***************************************************************************)
(* Specification of single binary_search calls                             *)
(***************************************************************************)

InitBS ==
    /\ InitReader
    /\ InitIdleGenerator
    /\ InitNoCall
    /\ bs_a \in AscendingSeqs(MaxVal)
    /\ bs_x \in 0..(MaxVal + 1)
    /\ bs_ret = NotCalled

CallBinarySearch ==
    /\ bs_ret = NotCalled
    /\ bs_ret' = binary_search(bs_a, bs_x)
    /\ UNCHANGED <<bs_a, bs_x, readervars, genvars, cpvars>>

NextBS == CallBinarySearch

SpecBS == InitBS /\ [][NextBS]_vars

\* C1: on a strictly ascending sequence binary_search(a, x) returns the index
\* i with a[i] = x when x is in a and raises ValueError when x is not in a; it
\* never returns an index whose element differs from x.
C1_BinarySearchCorrect ==
    bs_ret # NotCalled =>
        /\ (bs_x \in Range(bs_a)) =>
              /\ bs_ret \in 0..(Len(bs_a) - 1)
              /\ At(bs_a, bs_ret) = bs_x
        /\ (bs_x \notin Range(bs_a)) => bs_ret = ValueError
        /\ bs_ret # ValueError => At(bs_a, bs_ret) = bs_x

C1_Witness ==
    /\ Len(bs_a) >= 3
    /\ bs_ret = Len(bs_a) - 1
    /\ At(bs_a, bs_ret) = bs_x
====
